---- MODULE Spec2Model ----
(***************************************************************************)
(* Device-behaviour layer of mirte_telemetrix/scripts/                     *)
(* ROS_telemetrix_aio_api.py: the on-demand pin query, the three motor     *)
(* drivers, the OLED driver, the publish-rate limiter of SensorMonitor and *)
(* the keypad decoder.  Each component has its own specification; a        *)
(* specification leaves the variables of the other components at their    *)
(* constructed values.                                                     *)
(***************************************************************************)
EXTENDS Integers, Sequences, FiniteSets, TLC

VARIABLES
    \* handle_get_pin_value / data_callback (module level state)
    pin_values,         \* the global dict pin_values: pin number -> last reported value
    subscribed,         \* <<report type, board pin>> pairs whose input mode was set with data_callback
    gpc,                \* position of the handle_get_pin_value call in flight ("idle" when none)
    greq,               \* its request: [pin, type]
    elapsed,            \* seconds since start_time of the call in flight
    gvalue,             \* its local variable value
    gresp,              \* how the last call ended: [kind, value]
    \* Motor (PPMotor, DPMotor, DDPMotor)
    kind,               \* the variant constructed from the configuration: "pp", "dp", "ddp"
    prev_motor_speed,   \* Motor.prev_motor_speed
    initialized,        \* Motor.initialized
    pinval,             \* last value written to each motor pin (0 before any write)
    pinmode,            \* output mode configured for each motor pin ("unset" before)
    modecount,          \* number of pin-mode calls issued for each motor pin
    mpc,                \* "run" while a set_speed call is in flight, else "idle"
    mspeed,             \* the target of the current (or last) set_speed call
    mprog,              \* the board operations the call in flight has still to issue
    oplog,              \* the board operations the current (or last) call has issued
    ncalls,             \* set_speed calls made so far
    nzcalls,            \* set_speed calls made so far with a non-zero target
    targets,            \* the targets of the set_speed calls made so far, in order
    sprog,              \* the operations the set_speed of the service handler has still to issue
    \* Oled
    failed,             \* Oled.failed
    opc,                \* "start", "idle", "show" (between flushes of a call), "flush"
    ostart,             \* write_commands Oled.start has still to send
    oreq,               \* req.type of the current (or last) set_oled_image_service call
    frames,             \* images the call in flight has still to show
    started,            \* tasks of the current asyncio.gather that have started
    inflight,           \* i2c_write calls issued and not yet answered
    entered_failed,     \* whether failed was set when the current (or last) call began
    wrote,              \* whether the current (or last) call issued an i2c_write
    oresp,              \* the response of the last call: "none", "True", "False"
    owidth,             \* Oled.width
    oheight,            \* Oled.height
    buslog,             \* the i2c_write calls of the current (or last) flush, as issued
    raised,             \* whether a task of the current (or last) gather raised
    orphaned,           \* whether i2c_write calls whose gather is over are unanswered
    temp,               \* Oled.temp, the two bytes every command write is built in
    \* SensorMonitor
    max_freq,           \* SensorMonitor.max_freq (-1: publish every reading)
    now,                \* the clock, in milliseconds
    last_publish_time,  \* SensorMonitor.last_publish_time (-1 before the first reading)
    last_publish_value, \* SensorMonitor.last_publish_value
    nreadings,          \* publish calls made so far
    nforwarded,         \* publisher.publish calls made so far
    fwd_in_call,        \* publisher.publish calls made by the last publish call
    fwd_times,          \* the clock at each publisher.publish call so far
    first_reading,      \* the clock at the first publish call (-1 before it)
    last_reading,       \* the clock at the last publish call (-1 before the first)
    maxgap,             \* the longest time between two consecutive publish calls so far
    \* KeypadMonitor
    adc_bits,           \* board_mapping.get_adc_bits()
    ksample,            \* data[2] of the last sample
    last_key,           \* KeypadMonitor.last_key
    last_debounce_time, \* KeypadMonitor.last_debounce_time, in milliseconds
    last_debounced_key, \* KeypadMonitor.last_debounced_key
    pressed,            \* what the last sample sent to pressed_publisher: [sent, key]
    run_start,          \* the time of the first sample of the current run of one raw key
    run_changes,        \* changes of last_debounced_key between the samples of that run
    run_before,         \* last_debounced_key before the first sample of that run
    run_same,           \* whether last_debounced_key was run_before after each of its samples
    prev_run_key,       \* the raw key of the run before it ("-" when there is none)
    \* EncoderSensorMonitor
    speed_count,        \* EncoderSensorMonitor.speed_count
    tick_pc,            \* where publish_data is: "idle", "loaded"
    tick_read,          \* the speed_count publish_data has read and not yet stored back
    timer_pc,           \* where publish_speed_data is: "idle", "read"
    timer_value,        \* encoder.value of the report publish_speed_data is building
    nticks,             \* publish_data calls so far
    nreports,           \* speed_pub.publish calls so far
    speed_sum           \* the sum of the values given to speed_pub.publish so far

pinVars == <<pin_values, subscribed, gpc, greq, elapsed, gvalue, gresp>>
motorVars == <<kind, prev_motor_speed, initialized, pinval, pinmode, modecount,
               mpc, mspeed, mprog, oplog, ncalls, nzcalls, targets, sprog>>

oledVars == <<failed, opc, ostart, oreq, frames, started, inflight,
              entered_failed, wrote, oresp, owidth, oheight, buslog, raised, orphaned,
              temp>>

rateVars == <<max_freq, now, last_publish_time, last_publish_value, nreadings,
              nforwarded, fwd_in_call, fwd_times, first_reading, last_reading, maxgap>>
keypadVars == <<adc_bits, ksample, last_key, last_debounce_time, last_debounced_key,
                pressed, run_start, run_changes, run_before, run_same, prev_run_key>>

encoderVars == <<speed_count, tick_pc, tick_read, timer_pc, timer_value, nticks,
                 nreports, speed_sum>>

vars == <<pinVars, motorVars, oledVars, rateVars, keypadVars, encoderVars>>

\* What an action of one component leaves alone: the other components.
PinOnly == UNCHANGED <<motorVars, oledVars, rateVars, keypadVars, encoderVars>>
MotorOnly == UNCHANGED <<pinVars, oledVars, rateVars, keypadVars, encoderVars>>
OledOnly == UNCHANGED <<pinVars, motorVars, rateVars, keypadVars, encoderVars>>
SensorOnly == UNCHANGED <<pinVars, motorVars, oledVars, encoderVars>>
EncoderOnly == UNCHANGED <<pinVars, motorVars, oledVars, keypadVars>>

(***************************************************************************)
(* handle_get_pin_value and data_callback                                  *)
(***************************************************************************)

\* Pin numbers a request can name (after pin_name_to_pin_number / int()).
Pins == {14, 15}
\* Values a pin reports.
PinReadings == {0, 1}
\* req.type: the handler acts on "analog" and "digital" and ignores anything else.
PinTypes == {"analog", "digital", "other"}

\* board_mapping.get_analog_offset(): the number of the first analog pin.
AnalogOffset == 14
\* Telemetrix' report type of an analog report (data[0] == 3); digital reports carry 2.
AnalogReport == 3
DigitalReport == 2
\* The deadline of the wait loop, in seconds.
TimeoutSeconds == 5
\* The error value of a query the device did not answer.
ErrorValue == -1

\* d[k] = v in a Python dict.
DictSet(d, k, v) == [x \in (DOMAIN d) \cup {k} |-> IF x = k THEN v ELSE d[x]]

\* data_callback(data): data = <<report type, board pin, value>>.
DataCallbackPin(data) ==
    IF data[1] = AnalogReport THEN data[2] + AnalogOffset ELSE data[2]

DataCallback ==
    /\ \E s \in subscribed, v \in PinReadings :
         LET data == <<s[1], s[2], v>> IN
         pin_values' = DictSet(pin_values, DataCallbackPin(data), v)
    /\ UNCHANGED <<subscribed, gpc, greq, elapsed, gvalue, gresp>>
    /\ PinOnly

\* Lines 823-831: the input mode set, with data_callback, for a pin without a value.
Subscriptions(pin, type) ==
    IF pin \in DOMAIN pin_values THEN {}
    ELSE IF type = "analog" THEN {<<AnalogReport, pin - AnalogOffset>>}
    ELSE IF type = "digital" THEN {<<DigitalReport, pin>>}
    ELSE {}

\* Lines 814-834: entry of the handler up to start_time = time.time().
GetPinValueCall ==
    /\ gpc = "idle"
    /\ \E pin \in Pins, type \in PinTypes :
         /\ greq' = [pin |-> pin, type |-> type]
         /\ subscribed' = subscribed \cup Subscriptions(pin, type)
    /\ gpc' = "wait"
    /\ elapsed' = 0
    /\ gresp' = [kind |-> "none", value |-> 0]
    /\ UNCHANGED <<pin_values, gvalue>>
    /\ PinOnly

\* Line 835: the loop condition.
KeepWaiting == greq.pin \notin DOMAIN pin_values /\ elapsed < TimeoutSeconds

\* Lines 835-836: one more second of sleeping in the loop.
GetPinValueWait ==
    /\ gpc = "wait"
    /\ KeepWaiting
    /\ elapsed' = elapsed + 1
    /\ UNCHANGED <<pin_values, subscribed, gpc, greq, gvalue, gresp>>
    /\ PinOnly

\* Line 835: the loop ends, on a value or on the timeout.
GetPinValueWaitEnd ==
    /\ gpc = "wait"
    /\ ~KeepWaiting
    /\ gpc' = "select"
    /\ UNCHANGED <<pin_values, subscribed, greq, elapsed, gvalue, gresp>>
    /\ PinOnly

\* Lines 837-840.
GetPinValueSelect ==
    /\ gpc = "select"
    /\ gvalue' = IF greq.pin \in DOMAIN pin_values
                 THEN pin_values[greq.pin]
                 ELSE ErrorValue
    /\ gpc' = "read"
    /\ UNCHANGED <<pin_values, subscribed, greq, elapsed, gresp>>
    /\ PinOnly

\* Lines 842-843: value = pin_values[pin] again, unconditionally, then the response.
\* A pin absent from the dict raises KeyError and the handler ends without a response.
GetPinValueReturn ==
    /\ gpc = "read"
    /\ IF greq.pin \in DOMAIN pin_values
       THEN /\ gvalue' = pin_values[greq.pin]
            /\ gresp' = [kind |-> "response", value |-> pin_values[greq.pin]]
       ELSE /\ gvalue' = gvalue
            /\ gresp' = [kind |-> "KeyError", value |-> 0]
    /\ gpc' = "idle"
    /\ UNCHANGED <<pin_values, subscribed, greq, elapsed>>
    /\ PinOnly

InitPin ==
    /\ pin_values = << >>
    /\ subscribed = {}
    /\ gpc = "idle"
    /\ greq = [pin |-> 14, type |-> "other"]
    /\ elapsed = 0
    /\ gvalue = 0
    /\ gresp = [kind |-> "none", value |-> 0]

NextPin ==
    \/ DataCallback
    \/ GetPinValueCall
    \/ GetPinValueWait
    \/ GetPinValueWaitEnd
    \/ GetPinValueSelect
    \/ GetPinValueReturn

(***************************************************************************)
(* Motor, PPMotor, DPMotor, DDPMotor                                       *)
(*                                                                         *)
(* A set_speed call reads prev_motor_speed, initialized and its target     *)
(* before its first await; from there on it issues a fixed list of board   *)
(* operations, one per step, with the assignments to initialized and       *)
(* prev_motor_speed at their places in that list.                          *)
(***************************************************************************)

\* Targets of set_speed, among them targets beyond +/-100.
Speeds == {-150, -40, 0, 40, 150}
\* The number of set_speed calls of a run.
MaxCalls == 4
\* board_mapping.get_max_pwm_value(): the full-scale PWM duty of the board.
MaxPwmValue == 255

MotorKinds == {"pp", "dp", "ddp"}
MotorPins == {"p1", "p2", "d1", "d2"}
\* The pins each variant drives.
KindPins(k) ==
    IF k = "pp" THEN {"p1", "p2"}
    ELSE IF k = "dp" THEN {"p1", "d1"}
    ELSE {"p1", "d1", "d2"}

Min(a, b) == IF a < b THEN a ELSE b
Abs(a) == IF a < 0 THEN -a ELSE a

\* The duty of a magnitude without the clamp at 100.
DutyUnclamped(x) == (x * MaxPwmValue) \div 100

\* int(min(x, 100) / 100.0 * board_mapping.get_max_pwm_value())
Duty(x) == (Min(x, 100) * MaxPwmValue) \div 100

\* The duty of the magnitude, not taken from max_pwm.
DutyOfMagnitude(speed) == (Min(Abs(speed), 100) * MaxPwmValue) \div 100

\* int(max_pwm - min(abs(speed), 100) / 100.0 * max_pwm)
InvertedDuty(speed) == (100 * MaxPwmValue - Min(Abs(speed), 100) * MaxPwmValue) \div 100

\* The board operations and the two assignments of a call.
AnalogMode(pin) == [op |-> "set_pin_mode_analog_output", pin |-> pin, val |-> 0]
DigitalMode(pin) == [op |-> "set_pin_mode_digital_output", pin |-> pin, val |-> 0]
AnalogWrite(pin, v) == [op |-> "analog_write", pin |-> pin, val |-> v]
DigitalWrite(pin, v) == [op |-> "digital_write", pin |-> pin, val |-> v]
SetInitialized == [op |-> "initialized = True", pin |-> "p1", val |-> 0]
SetPrevSpeed(speed) == [op |-> "prev_motor_speed = speed", pin |-> "p1", val |-> speed]

IsModeOp(o) == o.op \in {"set_pin_mode_analog_output", "set_pin_mode_digital_output"}
IsWriteOp(o) == o.op \in {"analog_write", "digital_write"}

\* PPInitMotors without the test of initialized.
PPInitMotorsAlways(speed, init) ==
    (IF speed > 0 THEN <<AnalogMode("p2"), AnalogMode("p1")>> ELSE << >>)
    \o (IF speed < 0 THEN <<AnalogMode("p1"), AnalogMode("p2")>> ELSE << >>)
    \o <<SetInitialized>>

\* PPMotor.init_motors(speed)
PPInitMotors(speed, init) ==
    IF ~init
    THEN (IF speed > 0 THEN <<AnalogMode("p2"), AnalogMode("p1")>> ELSE << >>)
         \o (IF speed < 0 THEN <<AnalogMode("p1"), AnalogMode("p2")>> ELSE << >>)
         \o <<SetInitialized>>
    ELSE << >>

\* PPSetSpeed with the driven pin written before the other pin is written 0.
PPSetSpeedDriveFirst(speed, prev, init) ==
    IF prev # speed
    THEN (IF speed = 0
          THEN <<AnalogWrite("p2", 0), AnalogWrite("p1", 0)>>
          ELSE IF speed > 0
          THEN PPInitMotors(speed, init)
               \o <<AnalogWrite("p1", Duty(speed)), AnalogWrite("p2", 0)>>
          ELSE PPInitMotors(speed, init)
               \o <<AnalogWrite("p2", Duty(-speed)), AnalogWrite("p1", 0)>>)
         \o <<SetPrevSpeed(speed)>>
    ELSE << >>

\* PPMotor.set_speed(speed)
PPSetSpeed(speed, prev, init) ==
    IF prev # speed
    THEN (IF speed = 0
          THEN <<AnalogWrite("p2", 0), AnalogWrite("p1", 0)>>
          ELSE IF speed > 0
          THEN PPInitMotors(speed, init)
               \o <<AnalogWrite("p2", 0), AnalogWrite("p1", Duty(speed))>>
          ELSE PPInitMotors(speed, init)
               \o <<AnalogWrite("p1", 0), AnalogWrite("p2", Duty(-speed))>>)
         \o <<SetPrevSpeed(speed)>>
    ELSE << >>

\* DPInitMotors with d1 configured first in both directions.
DPInitMotorsSameOrder(speed, init) ==
    IF ~init
    THEN <<DigitalMode("d1"), AnalogMode("p1"), SetInitialized>>
    ELSE << >>

\* DPMotor.init_motors(speed)
DPInitMotors(speed, init) ==
    IF ~init
    THEN (IF speed > 0 THEN <<DigitalMode("d1"), AnalogMode("p1")>> ELSE << >>)
         \o (IF speed < 0 THEN <<AnalogMode("p1"), DigitalMode("d1")>> ELSE << >>)
         \o <<SetInitialized>>
    ELSE << >>

\* DPMotor.set_speed(speed)
DPSetSpeed(speed, prev, init) ==
    IF prev # speed
    THEN (IF speed = 0
          THEN <<DigitalWrite("d1", 0), AnalogWrite("p1", 0)>>
          ELSE IF speed > 0
          THEN DPInitMotors(speed, init)
               \o <<DigitalWrite("d1", 0), AnalogWrite("p1", Duty(speed))>>
          ELSE DPInitMotors(speed, init)
               \o <<DigitalWrite("d1", 1), AnalogWrite("p1", InvertedDuty(speed))>>)
         \o <<SetPrevSpeed(speed)>>
    ELSE << >>

\* DDPInitMotors without the configuration of d2.
DDPInitMotorsNoD2(init) ==
    IF ~init
    THEN <<AnalogMode("p1"), DigitalMode("d1"), SetInitialized>>
    ELSE << >>

\* DDPMotor.init_motors()
DDPInitMotors(init) ==
    IF ~init
    THEN <<AnalogMode("p1"), DigitalMode("d1"), DigitalMode("d2"), SetInitialized>>
    ELSE << >>

\* DDPWrites with the high pin written first when reversing.
DDPWritesHighFirst(speed) ==
    IF speed >= 0
    THEN <<DigitalWrite("d1", 0), DigitalWrite("d2", 0),
           AnalogWrite("p1", Duty(speed)), DigitalWrite("d2", 1)>>
    ELSE <<DigitalWrite("d1", 1), DigitalWrite("d2", 0),
           AnalogWrite("p1", Duty(Abs(speed)))>>

\* DDPMotor.set_speed(speed), lines 543-562: the writes of the two branches.
DDPWrites(speed) ==
    IF speed >= 0
    THEN <<DigitalWrite("d1", 0), DigitalWrite("d2", 0),
           AnalogWrite("p1", Duty(speed)), DigitalWrite("d2", 1)>>
    ELSE <<DigitalWrite("d2", 0), DigitalWrite("d1", 0),
           AnalogWrite("p1", Duty(Abs(speed))), DigitalWrite("d1", 1)>>

\* DDPSetSpeed without the comparison with prev_motor_speed.
DDPSetSpeedUnguarded(speed, prev, init) ==
    DDPInitMotors(init) \o DDPWrites(speed) \o <<SetPrevSpeed(speed)>>

\* DDPMotor.set_speed(speed)
DDPSetSpeed(speed, prev, init) ==
    IF prev # speed
    THEN DDPInitMotors(init) \o DDPWrites(speed) \o <<SetPrevSpeed(speed)>>
    ELSE << >>

\* The set_speed of the variant the configuration chose (actuators(), lines 902-907).
SetSpeedProgram(k, speed, prev, init) ==
    IF k = "pp" THEN PPSetSpeed(speed, prev, init)
    ELSE IF k = "dp" THEN DPSetSpeed(speed, prev, init)
    ELSE DDPSetSpeed(speed, prev, init)

\* Motor.callback / Motor.set_motor_speed_service: a set_speed call starts. A call
\* whose target equals prev_motor_speed has nothing to issue and is over at once.
MotorSetSpeed ==
    /\ mpc = "idle"
    /\ ncalls < MaxCalls
    /\ \E speed \in Speeds :
         LET prog == SetSpeedProgram(kind, speed, prev_motor_speed, initialized) IN
         /\ mspeed' = speed
         /\ mprog' = prog
         /\ mpc' = IF prog = << >> THEN "idle" ELSE "run"
         /\ nzcalls' = IF speed # 0 THEN nzcalls + 1 ELSE nzcalls
         /\ targets' = Append(targets, speed)
    /\ ncalls' = ncalls + 1
    /\ oplog' = << >>
    /\ UNCHANGED <<kind, prev_motor_speed, initialized, pinval, pinmode, modecount>>
    /\ UNCHANGED sprog
    /\ MotorOnly

\* One board operation or assignment of a set_speed call takes effect.
ApplyOp(o) ==
    /\ pinval' = IF IsWriteOp(o) THEN [pinval EXCEPT ![o.pin] = o.val] ELSE pinval
    /\ pinmode' = IF IsModeOp(o) THEN [pinmode EXCEPT ![o.pin] = o.op] ELSE pinmode
    /\ modecount' = IF IsModeOp(o)
                    THEN [modecount EXCEPT ![o.pin] = @ + 1]
                    ELSE modecount
    /\ initialized' = IF o = SetInitialized THEN TRUE ELSE initialized
    /\ prev_motor_speed' = IF o.op = "prev_motor_speed = speed"
                           THEN o.val
                           ELSE prev_motor_speed

\* The call in flight issues its next board operation, or makes its next assignment.
MotorStep ==
    /\ mpc = "run"
    /\ ApplyOp(Head(mprog))
    /\ oplog' = Append(oplog, Head(mprog))
    /\ mprog' = Tail(mprog)
    /\ mpc' = IF Tail(mprog) = << >> THEN "idle" ELSE "run"
    /\ UNCHANGED <<kind, mspeed, ncalls, nzcalls, targets, sprog>>
    /\ MotorOnly

\* Motor.set_motor_speed_service (lines 432-434): the service handler starts a
\* set_speed of its own with asyncio.run, whether or not the set_speed the topic
\* callback started (line 430) is over. The call tests prev_motor_speed and
\* initialized before its first await.
ServiceSetSpeed ==
    /\ sprog = << >>
    /\ ncalls < MaxCalls
    /\ \E speed \in Speeds :
         /\ sprog' = SetSpeedProgram(kind, speed, prev_motor_speed, initialized)
         /\ nzcalls' = IF speed # 0 THEN nzcalls + 1 ELSE nzcalls
         /\ targets' = Append(targets, speed)
    /\ ncalls' = ncalls + 1
    /\ UNCHANGED <<kind, prev_motor_speed, initialized, pinval, pinmode, modecount>>
    /\ UNCHANGED <<mpc, mspeed, mprog, oplog>>
    /\ MotorOnly

\* The set_speed of the service handler issues its next board operation, or makes its
\* next assignment.
ServiceStep ==
    /\ sprog # << >>
    /\ ApplyOp(Head(sprog))
    /\ sprog' = Tail(sprog)
    /\ UNCHANGED <<kind, mpc, mspeed, mprog, oplog, ncalls, nzcalls, targets>>
    /\ MotorOnly

\* Motor.__init__ (lines 412-417) of the variant k.
InitMotorKind(k) ==
    /\ kind = k
    /\ prev_motor_speed = 0
    /\ initialized = FALSE
    /\ pinval = [p \in MotorPins |-> 0]
    /\ pinmode = [p \in MotorPins |-> "unset"]
    /\ modecount = [p \in MotorPins |-> 0]
    /\ mpc = "idle"
    /\ mspeed = 0
    /\ mprog = << >>
    /\ oplog = << >>
    /\ ncalls = 0
    /\ nzcalls = 0
    /\ targets = << >>
    /\ sprog = << >>

InitMotor == \E k \in MotorKinds : InitMotorKind(k)

NextMotor ==
    \/ MotorSetSpeed
    \/ MotorStep

\* The topic callback and the service handler of one motor, each in a thread of rospy.
NextMotorOverlap ==
    \/ MotorSetSpeed
    \/ MotorStep
    \/ ServiceSetSpeed
    \/ ServiceStep

(***************************************************************************)
(* Oled                                                                    *)
(*                                                                         *)
(* show_async hands six write_cmd_async coroutines and the 64 chunk tasks  *)
(* of write_framebuf_async to asyncio.gather.  The tasks start in list     *)
(* order; each runs up to its i2c_write and goes on when that write is     *)
(* answered, which may be before or after later tasks have started.        *)
(***************************************************************************)

\* write_cmd_async calls of one show_async (lines 742-747).
PreambleCmds == 6
\* Tasks of write_framebuf_async (range(64), line 767).
NumChunks == 64
NumTasks == PreambleCmds + NumChunks
\* The commands the constructor queued in write_commands for Oled.start.
MaxStartWrites == 3
\* The images of an animation folder.
MaxFrames == 2

OledTypes == {"text", "image", "animation", "other"}
\* What board.i2c_write returns: the pico True or False, the arduino always None.
I2cResults == {"True", "False", "None"}

\* out == False (lines 638, 722, 762): only False counts as a failure.
WriteFailed(out) == out = "False"

\* Oled.start, lines 635-642: the queued commands, one at a time; the first failure
\* latches failed and ends start.
OledStartWrite ==
    /\ opc = "start"
    /\ \E out \in I2cResults :
         IF WriteFailed(out)
         THEN /\ failed' = TRUE
              /\ opc' = "idle"
              /\ ostart' = ostart - 1
         ELSE /\ failed' = failed
              /\ ostart' = ostart - 1
              /\ opc' = IF ostart = 1 THEN "idle" ELSE "start"
    /\ UNCHANGED <<oreq, frames, started, inflight, entered_failed, wrote, oresp>>
    /\ UNCHANGED <<owidth, oheight, buslog, raised, orphaned, temp>>
    /\ OledOnly

\* The number of show_async / show_png calls a request asks for (lines 645-678).
FramesOf(type) ==
    IF type = "text" \/ type = "image" THEN {1}
    ELSE IF type = "animation" THEN 0..MaxFrames
    ELSE {0}

\* OledServiceCall without the test of failed.
OledServiceCallUnguarded ==
    /\ opc = "idle"
    /\ entered_failed' = failed
    /\ wrote' = FALSE
    /\ \E type \in OledTypes :
         /\ oreq' = type
         /\ oresp' = "none"
         /\ opc' = "show"
         /\ \E n \in FramesOf(type) : frames' = n
    /\ UNCHANGED <<failed, ostart, started, inflight>>
    /\ UNCHANGED <<owidth, oheight, buslog, raised, orphaned, temp>>
    /\ OledOnly

\* set_oled_image_service, lines 680-686: refused when failed is set, else the
\* request is run on the loop.
OledServiceCall ==
    /\ opc = "idle"
    /\ entered_failed' = failed
    /\ wrote' = FALSE
    /\ \E type \in OledTypes :
         /\ oreq' = type
         /\ IF failed
            THEN /\ oresp' = "False"
                 /\ opc' = "idle"
                 /\ frames' = 0
            ELSE /\ oresp' = "none"
                 /\ opc' = "show"
                 /\ \E n \in FramesOf(type) : frames' = n
    /\ UNCHANGED <<failed, ostart, started, inflight>>
    /\ UNCHANGED <<owidth, oheight, buslog, raised, orphaned, temp>>
    /\ OledOnly

\* Line 689: whatever happened in between, the response is SetOLEDImageResponse(True).
OledServiceReturn ==
    /\ opc = "show"
    /\ frames = 0
    /\ oresp' = "True"
    /\ opc' = "idle"
    /\ UNCHANGED <<failed, ostart, oreq, frames, started, inflight, entered_failed, wrote>>
    /\ UNCHANGED <<owidth, oheight, buslog, raised, orphaned, temp>>
    /\ OledOnly

\* show_png, lines 778-780: Image.open of a file that may be missing; the exception
\* ends the request in the except clause of set_oled_image_service (lines 687-688).
OledShowPngRaises ==
    /\ opc = "show"
    /\ frames > 0
    /\ oreq \in {"image", "animation"}
    /\ frames' = 0
    /\ UNCHANGED <<failed, opc, ostart, oreq, started, inflight, entered_failed, wrote, oresp>>
    /\ UNCHANGED <<owidth, oheight, buslog, raised, orphaned, temp>>
    /\ OledOnly

\* show_async, lines 728-737: the column range of the display, shifted for the
\* widths 64 and 72.
Xpos0(width) == IF width = 64 THEN 32 ELSE IF width = 72 THEN 28 ELSE 0
Xpos1(width) == width - 1 + Xpos0(width)

\* _SSD1306.pages, and the length of self.buffer (line 595).
Pages(height) == height \div 8
BufferLen(width, height) == Pages(height) * width + 1

\* The commands with the page range before the column range.
PreambleCmdPagesFirst(i, width, height) ==
    <<34, 0, Pages(height) - 1, 33, Xpos0(width), Xpos1(width)>>[i + 1]

\* Lines 741-746: the command of the i-th write_cmd_async of a flush, i from 0.
PreambleCmd(i, width, height) ==
    <<33, Xpos0(width), Xpos1(width), 34, 0, Pages(height) - 1>>[i + 1]

\* The slice of chunk i, one byte shorter: self.buffer[i*16 : (i+1)*16].
ChunkSliceShort(i, len) == [from |-> i * 16, to |-> Min((i + 1) * 16, len)]

\* Line 758: self.buffer[i*16 : (i+1)*16 + 1], a copy of the bytes from (and with)
\* index from up to (and without) index to of a buffer of len bytes.
ChunkSlice(i, len) == [from |-> i * 16, to |-> Min((i + 1) * 16 + 1, len)]

\* Lines 719-720: self.temp as the i-th write_cmd_async of a flush leaves it.
TempOf(i, width, height) == <<128, PreambleCmd(i, width, height)>>

\* The write of write_cmd_async (line 721): the two bytes of self.temp as they are
\* when i2c_write is called.
CmdWrite(i, width, height) ==
    LET t == TempOf(i, width, height) IN
    [task |-> i, marker |-> t[1], bytes |-> Len(t), cmd |-> t[2], lo |-> 0, hi |-> -1]

\* The write of chunk task i (lines 758-761): the copy with its first byte set to
\* 0x40. The other bytes are self.buffer[from + 1 .. to - 1], which the framebuffer
\* memoryview(self.buffer)[1:] knows as its bytes lo = from to hi = to - 2.
ChunkWrite(i, width, height) ==
    LET sl == ChunkSlice(i, BufferLen(width, height)) IN
    [task |-> PreambleCmds + i, marker |-> 64, bytes |-> sl.to - sl.from, cmd |-> -1,
     lo |-> sl.from, hi |-> sl.to - 2]

\* buf[0] = 0x40 on an empty slice raises IndexError.
ChunkRaises(i, width, height) ==
    LET sl == ChunkSlice(i, BufferLen(width, height)) IN sl.to <= sl.from

\* show_async, lines 740-752: with failed set write_framebuf_async returns None, the
\* list display raises TypeError, which is caught, and nothing is written; otherwise
\* the 70 coroutines go to asyncio.gather.
OledShowAsync ==
    /\ opc = "show"
    /\ frames > 0
    /\ frames' = frames - 1
    /\ started' = 0
    /\ buslog' = << >>
    /\ raised' = FALSE
    /\ opc' = IF failed THEN "show" ELSE "flush"
    /\ UNCHANGED <<failed, ostart, oreq, inflight, entered_failed, wrote, oresp>>
    /\ UNCHANGED <<owidth, oheight, orphaned, temp>>
    /\ OledOnly

\* Every task, the chunk tasks too, returns at once when failed is set.
TaskSkipsChunksToo(i, f) == f

\* A task of the gather starts: write_cmd_async (the first six) returns at once when
\* failed is set (lines 717-718); a chunk task (lines 758-761) always goes on to its
\* write.
TaskSkips(i, f) == i < PreambleCmds /\ f

OledTaskStart ==
    /\ opc = "flush"
    /\ started < NumTasks
    /\ started' = started + 1
    /\ IF TaskSkips(started, failed)
       THEN UNCHANGED <<inflight, wrote, buslog, raised, temp>>
       ELSE IF started < PreambleCmds
       THEN /\ temp' = TempOf(started, owidth, oheight)
            /\ inflight' = inflight + 1
            /\ wrote' = TRUE
            /\ buslog' = Append(buslog, CmdWrite(started, owidth, oheight))
            /\ UNCHANGED raised
       ELSE IF ChunkRaises(started - PreambleCmds, owidth, oheight)
       THEN /\ raised' = TRUE
            /\ UNCHANGED <<inflight, wrote, buslog, temp>>
       ELSE /\ inflight' = inflight + 1
            /\ wrote' = TRUE
            /\ buslog' = Append(buslog,
                                ChunkWrite(started - PreambleCmds, owidth, oheight))
            /\ UNCHANGED <<raised, temp>>
    /\ UNCHANGED <<failed, opc, ostart, oreq, frames, entered_failed, oresp>>
    /\ UNCHANGED <<owidth, oheight, orphaned>>
    /\ OledOnly

\* An i2c_write of the gather is answered (lines 721-724, 761-764).
OledWriteDone ==
    /\ opc = "flush"
    /\ inflight > 0
    /\ inflight' = inflight - 1
    /\ \E out \in I2cResults : failed' = (failed \/ WriteFailed(out))
    /\ UNCHANGED <<opc, ostart, oreq, frames, started, entered_failed, wrote, oresp>>
    /\ UNCHANGED <<owidth, oheight, buslog, raised, orphaned, temp>>
    /\ OledOnly

\* asyncio.gather returns (line 750): every task is over, none has raised.
OledGatherDone ==
    /\ opc = "flush"
    /\ started = NumTasks
    /\ inflight = 0
    /\ ~raised
    /\ opc' = "show"
    /\ UNCHANGED <<failed, ostart, oreq, frames, started, inflight, entered_failed, wrote, oresp>>
    /\ UNCHANGED <<owidth, oheight, buslog, raised, orphaned, temp>>
    /\ OledOnly

\* asyncio.gather raises the exception of a task (lines 750-752): show_async goes on
\* once every task has had its first step, and the writes still unanswered are left
\* to the loop.
OledGatherRaised ==
    /\ opc = "flush"
    /\ started = NumTasks
    /\ raised
    /\ opc' = "show"
    /\ orphaned' = (orphaned \/ inflight > 0)
    /\ inflight' = 0
    /\ UNCHANGED <<failed, ostart, oreq, frames, started, entered_failed, wrote, oresp>>
    /\ UNCHANGED <<owidth, oheight, buslog, raised, temp>>
    /\ OledOnly

\* A write left behind by a gather that raised is answered (lines 761-764); it was
\* the last such write, or it was not.
OledOrphanDone ==
    /\ orphaned
    /\ \E more \in BOOLEAN : orphaned' = more
    /\ \E out \in I2cResults : failed' = (failed \/ WriteFailed(out))
    /\ UNCHANGED <<opc, ostart, oreq, frames, started, inflight, entered_failed, wrote,
                   oresp>>
    /\ UNCHANGED <<owidth, oheight, buslog, raised, temp>>
    /\ OledOnly

\* The sizes of SSD1306 displays.
DisplaySizes == {<<128, 64>>, <<128, 32>>, <<72, 40>>, <<64, 48>>}

\* Oled.__init__ (lines 580-624) for a display of the given size, and the start
\* task. The constructor of _SSD1306 ends with show() (lines 691-709), whose last
\* write_cmd leaves pages - 1 in self.temp.
InitOledSize(width, height) ==
    /\ owidth = width
    /\ oheight = height
    /\ failed = FALSE
    /\ opc = "start"
    /\ ostart = MaxStartWrites
    /\ oreq = "other"
    /\ frames = 0
    /\ started = 0
    /\ inflight = 0
    /\ entered_failed = FALSE
    /\ wrote = FALSE
    /\ oresp = "none"
    /\ buslog = << >>
    /\ raised = FALSE
    /\ orphaned = FALSE
    /\ temp = <<128, Pages(height) - 1>>

\* The display actuators() constructs (lines 880-883): Oled(128, 64, ...), and its
\* start task.
InitOled == InitOledSize(128, 64)

NextOled ==
    \/ OledStartWrite
    \/ OledServiceCall
    \/ OledServiceReturn
    \/ OledShowPngRaises
    \/ OledShowAsync
    \/ OledTaskStart
    \/ OledWriteDone
    \/ OledGatherDone

NextOledSizes ==
    \/ OledStartWrite
    \/ OledServiceCall
    \/ OledServiceReturn
    \/ OledShowPngRaises
    \/ OledShowAsync
    \/ OledTaskStart
    \/ OledWriteDone
    \/ OledGatherDone
    \/ OledGatherRaised
    \/ OledOrphanDone

(***************************************************************************)
(* SensorMonitor.publish                                                   *)
(*                                                                         *)
(* Time is in whole milliseconds, as now_millis is.  The frequencies are   *)
(* those whose period 1000.0 / max_freq is a whole number of milliseconds, *)
(* for which the floating point sums of the code are exact.                *)
(***************************************************************************)

\* max_freq of the configuration: the sentinel -1 and throttling frequencies.
Unthrottled == -1
Frequencies == {Unthrottled, 250, 500}
\* The end of the clock of a run, in milliseconds.
MaxTime == 12

\* 1000.0 / self.max_freq
Period(f) == 1000 \div f

\* PublishResult without last_publish_time = now_millis at the first reading.
PublishResultNoStamp(f, lpt, t) ==
    IF f = Unthrottled
    THEN [forwards |-> 1, last |-> lpt]
    ELSE LET n1 == IF lpt = -1 THEN 1 ELSE 0
         IN  IF t - lpt >= Period(f)
             THEN [forwards |-> n1 + 1, last |-> lpt + Period(f)]
             ELSE [forwards |-> n1, last |-> lpt]

\* PublishResult with the sentinel -1 taken for a frequency: a period of -1000 ms.
PublishResultNoSentinel(f, lpt, t) ==
    LET period == IF f > 0 THEN 1000 \div f ELSE -(1000 \div (-f))
        first == lpt = -1
        lpt1 == IF first THEN t ELSE lpt
        n1 == IF first THEN 1 ELSE 0
    IN  IF t - lpt1 >= period
        THEN [forwards |-> n1 + 1, last |-> lpt1 + period]
        ELSE [forwards |-> n1, last |-> lpt1]

\* PublishResult without the advance of last_publish_time on a forward.
PublishResultNoAdvance(f, lpt, t) ==
    IF f = Unthrottled
    THEN [forwards |-> 1, last |-> lpt]
    ELSE LET first == lpt = -1
             lpt1 == IF first THEN t ELSE lpt
             n1 == IF first THEN 1 ELSE 0
         IN  IF t - lpt1 >= Period(f)
             THEN [forwards |-> n1 + 1, last |-> lpt1]
             ELSE [forwards |-> n1, last |-> lpt1]

\* PublishResult with last_publish_time set to the time of the call on a forward.
PublishResultStampsNow(f, lpt, t) ==
    IF f = Unthrottled
    THEN [forwards |-> 1, last |-> lpt]
    ELSE LET first == lpt = -1
             lpt1 == IF first THEN t ELSE lpt
             n1 == IF first THEN 1 ELSE 0
         IN  IF t - lpt1 >= Period(f)
             THEN [forwards |-> n1 + 1, last |-> t]
             ELSE [forwards |-> n1, last |-> lpt1]

\* PublishResult with the forward and the advance of every call after the first,
\* whatever the time since last_publish_time.
PublishResultAlwaysAdvance(f, lpt, t) ==
    IF f = Unthrottled
    THEN [forwards |-> 1, last |-> lpt]
    ELSE IF lpt = -1
         THEN [forwards |-> 1, last |-> t]
         ELSE [forwards |-> 1, last |-> lpt + Period(f)]

\* publish(data) at time t with last_publish_time = lpt: the number of publish_imp
\* calls it makes and the last_publish_time it leaves (lines 152-167).
PublishResult(f, lpt, t) ==
    IF f = Unthrottled
    THEN [forwards |-> 1, last |-> lpt]
    ELSE LET first == lpt = -1
             lpt1 == IF first THEN t ELSE lpt
             n1 == IF first THEN 1 ELSE 0
         IN  IF t - lpt1 >= Period(f)
             THEN [forwards |-> n1 + 1, last |-> lpt1 + Period(f)]
             ELSE [forwards |-> n1, last |-> lpt1]

Max(a, b) == IF a > b THEN a ELSE b

\* publish(data) when it keeps every reading as last_publish_value, forwarded or not.
PublishKeepsEvery(data, t) ==
    LET r == PublishResult(max_freq, last_publish_time, t) IN
    /\ last_publish_time' = r.last
    /\ last_publish_value' = data
    /\ nforwarded' = nforwarded + r.forwards
    /\ fwd_in_call' = r.forwards
    /\ fwd_times' = fwd_times \o [i \in 1..r.forwards |-> t]
    /\ nreadings' = nreadings + 1
    /\ first_reading' = IF nreadings = 0 THEN t ELSE first_reading
    /\ last_reading' = t
    /\ maxgap' = IF nreadings = 0 THEN 0 ELSE Max(maxgap, t - last_reading)

\* publish(data) called at time t, publish_imp included (lines 147-167).
Publish(data, t) ==
    LET r == PublishResult(max_freq, last_publish_time, t) IN
    /\ last_publish_time' = r.last
    /\ last_publish_value' = IF r.forwards > 0 THEN data ELSE last_publish_value
    /\ nforwarded' = nforwarded + r.forwards
    /\ fwd_in_call' = r.forwards
    /\ fwd_times' = fwd_times \o [i \in 1..r.forwards |-> t]
    /\ nreadings' = nreadings + 1
    /\ first_reading' = IF nreadings = 0 THEN t ELSE first_reading
    /\ last_reading' = t
    /\ maxgap' = IF nreadings = 0 THEN 0 ELSE Max(maxgap, t - last_reading)

\* A sensor's publish_data (lines 326-330): one reading, at a later time than the
\* reading before it. The reading's value is its number in the sequence.
RateReading ==
    /\ last_reading < now
    /\ Publish(nreadings + 1, now)
    /\ UNCHANGED <<max_freq, now>>
    /\ UNCHANGED keypadVars
    /\ SensorOnly

\* A millisecond passes.
Tick ==
    /\ now < MaxTime
    /\ now' = now + 1
    /\ UNCHANGED <<max_freq, last_publish_time, last_publish_value, nreadings,
                   nforwarded, fwd_in_call, fwd_times, first_reading, last_reading,
                   maxgap>>
    /\ UNCHANGED keypadVars
    /\ SensorOnly

\* The 100 Hz sensor of the end-to-end scenario: the time to its next reading passes
\* once the reading due now has been published.
ScenarioEndMs == 1000
ScenarioStepMs == 1000 \div 100

Tick100Hz ==
    /\ last_reading = now
    /\ now + ScenarioStepMs <= ScenarioEndMs
    /\ now' = now + ScenarioStepMs
    /\ UNCHANGED <<max_freq, last_publish_time, last_publish_value, nreadings,
                   nforwarded, fwd_in_call, fwd_times, first_reading, last_reading,
                   maxgap>>
    /\ UNCHANGED keypadVars
    /\ SensorOnly

\* SensorMonitor.__init__ (lines 119-131) with max_freq f and last_publish_value v,
\* the clock at t.
InitSensor(f, t, v) ==
    /\ max_freq = f
    /\ now = t
    /\ last_publish_time = -1
    /\ last_publish_value = v
    /\ nreadings = 0
    /\ nforwarded = 0
    /\ fwd_in_call = 0
    /\ fwd_times = << >>
    /\ first_reading = -1
    /\ last_reading = -1
    /\ maxgap = 0

NextRate ==
    \/ RateReading
    \/ Tick

NextRate100Hz ==
    \/ RateReading
    \/ Tick100Hz

(***************************************************************************)
(* KeypadMonitor.publish_data                                              *)
(*                                                                         *)
(* Sample timestamps (data[3], seconds) and the clock of publish are the   *)
(* same instant, in milliseconds. The string comparisons with "is not" are *)
(* comparisons of the interned literals, that is of the strings.           *)
(***************************************************************************)

\* board_mapping.get_adc_bits() of the boards.
AdcBits == {10, 12}
\* The debounce time of line 217 (0.1 s), in milliseconds.
DebounceMs == 100
\* Samples of a run of the decoder.
MaxDecodeSamples == 2
\* The time between two samples of that run, in milliseconds.
DecodeStepMs == 150

Keys == {"left", "up", "down", "right", "enter", ""}

\* Lines 200-210: data[2] < x / 4096 * (2 ** adc_bits), in whole numbers.
Below(v, x, bits) == v * 4096 < x * 2^bits

\* Decode with the 12-bit limits used as they are, whatever the bit depth.
DecodeUnscaled(v, bits) ==
    IF v < 70 THEN "left"
    ELSE IF v < 230 THEN "up"
    ELSE IF v < 410 THEN "down"
    ELSE IF v < 620 THEN "right"
    ELSE IF v < 880 THEN "enter"
    ELSE ""

Decode(v, bits) ==
    IF Below(v, 70, bits) THEN "left"
    ELSE IF Below(v, 230, bits) THEN "up"
    ELSE IF Below(v, 410, bits) THEN "down"
    ELSE IF Below(v, 620, bits) THEN "right"
    ELSE IF Below(v, 880, bits) THEN "enter"
    ELSE ""

\* The debounce time when a change of the raw key does not restart it.
DebounceTimeKept(last, key, t, ldt) == ldt

\* Lines 213-214: the debounce time restarts when the raw key changes.
DebounceTime(last, key, t, ldt) == IF last # key THEN t ELSE ldt

\* The debounced key when the raw key counts from a stable time of exactly the
\* debounce time on.
DebouncedKeyAtWindow(key, t, dt) == IF t - dt >= DebounceMs THEN key ELSE ""

\* The debounced key when the raw key counts at once.
DebouncedKeyNoWindow(key, t, dt) == key

\* Lines 216-218: the raw key counts once it is older than the debounce time.
DebouncedKey(key, t, dt) == IF t - dt > DebounceMs THEN key ELSE ""

\* A press event for the new debounced key, whatever the previous one was.
PressedEventOfNewKey(prev, debounced_key) ==
    IF prev # debounced_key
    THEN [sent |-> TRUE, key |-> debounced_key]
    ELSE [sent |-> FALSE, key |-> ""]

\* Lines 227-233: what goes to pressed_publisher, straight to its publish().
PressedEvent(prev, debounced_key) ==
    IF prev # "" /\ prev # debounced_key
    THEN [sent |-> TRUE, key |-> prev]
    ELSE [sent |-> FALSE, key |-> ""]

\* The run of samples with one raw key that the sample with this key, at time t,
\* continues or begins, and what last_debounced_key did over that run.
RunHistory(key, debounced_key, t) ==
    LET begins == nreadings = 0 \/ key # last_key
        changed == IF debounced_key # last_debounced_key THEN 1 ELSE 0
    IN  /\ run_start' = IF begins THEN t ELSE run_start
        /\ run_changes' = IF begins THEN 0 ELSE run_changes + changed
        /\ run_before' = IF begins THEN last_debounced_key ELSE run_before
        /\ run_same' = IF begins THEN debounced_key = last_debounced_key
                       ELSE run_same /\ debounced_key = run_before
        /\ prev_run_key' = IF ~begins THEN prev_run_key
                           ELSE IF nreadings = 0 THEN "-" ELSE last_key

\* publish_data(data) with data[2] = v and data[3] = t (lines 195-236).
KeypadPublishData(v, t) ==
    LET key == Decode(v, adc_bits)
        debounce_time == DebounceTime(last_key, key, t, last_debounce_time)
        debounced_key == DebouncedKey(key, t, debounce_time)
    IN  /\ last_debounce_time' = debounce_time
        /\ Publish(debounced_key, t)
        /\ pressed' = PressedEvent(last_debounced_key, debounced_key)
        /\ last_key' = key
        /\ last_debounced_key' = debounced_key
        /\ ksample' = v
        /\ RunHistory(key, debounced_key, t)

\* The samples that tell the bands apart at a bit depth: the values next to each
\* threshold, the ends of the range, and the documented 50 and 150.
Thresholds == {70, 230, 410, 620, 880}
BandSamples(bits) ==
    {v \in 0..(2^bits - 1) :
        \/ v \in {0, 50, 150, 2^bits - 1}
        \/ \E x \in Thresholds :
             /\ (v - 1) * 4096 <= x * 2^bits
             /\ x * 2^bits <= (v + 1) * 4096}

\* A sample arrives, with any value around the band limits.
KeypadDecodeSample ==
    /\ nreadings < MaxDecodeSamples
    /\ \E v \in BandSamples(adc_bits) :
         KeypadPublishData(v, now + DecodeStepMs)
    /\ now' = now + DecodeStepMs
    /\ UNCHANGED <<max_freq, adc_bits>>
    /\ SensorOnly

\* KeypadMonitor.__init__ (lines 176-183) on a board with the given ADC depth.
InitKeypad(bits) ==
    /\ adc_bits = bits
    /\ ksample = 0
    /\ last_key = ""
    /\ last_debounce_time = 0
    /\ last_debounced_key = ""
    /\ pressed = [sent |-> FALSE, key |-> ""]
    /\ run_start = 0
    /\ run_changes = 0
    /\ run_before = ""
    /\ run_same = TRUE
    /\ prev_run_key = "-"

NextDecode ==
    \/ KeypadDecodeSample

\* Samples of a run of the debouncer.
MaxKeypadSamples == 5
\* Its samples at 12 bits: one of the left band, one of the up band, and no key.
KeypadSamples == {50, 150, 4000}
\* The time from one sample to the next, in milliseconds: two of the shorter ones
\* make the debounce time exactly, the longer one exceeds it.
SampleGaps == {DebounceMs \div 2, DebounceMs + DebounceMs \div 2}

\* A sample arrives some time after the one before it.
KeypadSample ==
    /\ nreadings < MaxKeypadSamples
    /\ \E v \in KeypadSamples, gap \in SampleGaps :
         /\ KeypadPublishData(v, now + gap)
         /\ now' = now + gap
    /\ UNCHANGED <<max_freq, adc_bits>>
    /\ SensorOnly

NextKeypad ==
    \/ KeypadSample

(***************************************************************************)
(* EncoderSensorMonitor                                                    *)
(*                                                                         *)
(* publish_data runs in the thread of the event loop, once for every tick  *)
(* the board reports.  publish_speed_data is the callback of a rospy.Timer *)
(* and runs in the thread of that timer, ten times a second.  Nothing      *)
(* locks speed_count: the interpreter may switch threads between the read  *)
(* and the write of speed_count in either callback.                        *)
(***************************************************************************)

\* The ticks and the speed reports of a run.
MaxTicks == 4
MaxReports == 3

\* publish_data, line 374: the right-hand side self.speed_count + 1 reads speed_count.
EncoderTickLoad ==
    /\ tick_pc = "idle"
    /\ nticks < MaxTicks
    /\ tick_read' = speed_count
    /\ tick_pc' = "loaded"
    /\ nticks' = nticks + 1
    /\ UNCHANGED <<speed_count, timer_pc, timer_value, nreports, speed_sum>>
    /\ UNCHANGED rateVars
    /\ EncoderOnly

\* publish_data, lines 374-378: the sum is stored in speed_count and the tick is
\* published; data[2] is the number of the tick. max_freq is -1 (line 352).
EncoderTickStore ==
    /\ tick_pc = "loaded"
    /\ speed_count' = tick_read + 1
    /\ tick_read' = 0
    /\ tick_pc' = "idle"
    /\ Publish(nticks, now)
    /\ UNCHANGED <<max_freq, now>>
    /\ UNCHANGED <<timer_pc, timer_value, nticks, nreports, speed_sum>>
    /\ EncoderOnly

\* publish_speed_data, line 367: encoder.value = self.speed_count.
EncoderTimerRead ==
    /\ timer_pc = "idle"
    /\ nreports < MaxReports
    /\ timer_value' = speed_count
    /\ timer_pc' = "read"
    /\ UNCHANGED <<speed_count, tick_pc, tick_read, nticks, nreports, speed_sum>>
    /\ UNCHANGED rateVars
    /\ EncoderOnly

\* publish_speed_data, lines 368-369: speed_count is reset and the report published.
EncoderTimerReset ==
    /\ timer_pc = "read"
    /\ speed_count' = 0
    /\ speed_sum' = speed_sum + timer_value
    /\ nreports' = nreports + 1
    /\ timer_pc' = "idle"
    /\ UNCHANGED <<tick_pc, tick_read, timer_value, nticks>>
    /\ UNCHANGED rateVars
    /\ EncoderOnly

\* EncoderSensorMonitor.__init__ (lines 334-353): speed_count = 0, no callback running.
InitEncoder ==
    /\ speed_count = 0
    /\ tick_pc = "idle"
    /\ tick_read = 0
    /\ timer_pc = "idle"
    /\ timer_value = 0
    /\ nticks = 0
    /\ nreports = 0
    /\ speed_sum = 0

NextEncoder ==
    \/ EncoderTickLoad
    \/ EncoderTickStore
    \/ EncoderTimerRead
    \/ EncoderTimerReset

(***************************************************************************)
(* Specifications                                                          *)
(***************************************************************************)

\* A component no action of a specification touches stays as constructed.
ParkedMotor == InitMotorKind("pp")
ParkedSensor == InitSensor(10, 0, 0) /\ InitKeypad(12) /\ InitEncoder

\* The on-demand pin query, with the device's reports arriving at any time.
InitPinSpec == InitPin /\ ParkedMotor /\ InitOled /\ ParkedSensor
SpecPin == InitPinSpec /\ [][NextPin]_vars

\* One motor of any variant, its set_speed calls one after another.
InitMotorSpec == InitPin /\ InitMotor /\ InitOled /\ ParkedSensor
SpecMotor == InitMotorSpec /\ [][NextMotor]_vars

\* A DDPMotor whose topic callback and service handler may overlap.
InitMotorOverlapSpec == InitPin /\ InitMotorKind("ddp") /\ InitOled /\ ParkedSensor
SpecMotorOverlap == InitMotorOverlapSpec /\ [][NextMotorOverlap]_vars

\* One display: start, then its set_oled_image_service calls one after another.
InitOledSpec == InitPin /\ ParkedMotor /\ InitOled /\ ParkedSensor
SpecOled == InitOledSpec /\ [][NextOled]_vars

\* The Oled class constructed for a display of any of the SSD1306 sizes.
InitOledSizesSpec ==
    /\ InitPin /\ ParkedMotor /\ ParkedSensor
    /\ \E size \in DisplaySizes : InitOledSize(size[1], size[2])
SpecOledSizes == InitOledSizesSpec /\ [][NextOledSizes]_vars

\* One sensor with any max_freq, its readings at any increasing times from the
\* start of the clock on.
InitRateSpec ==
    /\ InitPin /\ ParkedMotor /\ InitOled /\ InitKeypad(12) /\ InitEncoder
    /\ \E f \in Frequencies : InitSensor(f, 0, 0)
SpecRate == InitRateSpec /\ [][NextRate]_vars

\* A sensor capped at 10 Hz that is read at 100 Hz from t = 0 on.
InitRate100HzSpec ==
    /\ InitPin /\ ParkedMotor /\ InitOled /\ InitKeypad(12) /\ InitEncoder
    /\ InitSensor(10, 0, 0)
SpecRate100Hz == InitRate100HzSpec /\ [][NextRate100Hz]_vars

\* One keypad on a board of any ADC depth: the decoding of its samples. The clock
\* starts far from the epoch, where last_debounce_time starts.
InitDecodeSpec ==
    /\ InitPin /\ ParkedMotor /\ InitOled /\ InitEncoder
    /\ \E bits \in AdcBits : InitKeypad(bits)
    /\ \E f \in {Unthrottled, 10} : InitSensor(f, 10 * DebounceMs, "")
SpecDecode == InitDecodeSpec /\ [][NextDecode]_vars

\* One keypad on a 12-bit board, capped at 4 Hz: the debouncing of its samples.
InitKeypadSpec ==
    /\ InitPin /\ ParkedMotor /\ InitOled /\ InitEncoder
    /\ InitKeypad(12)
    /\ InitSensor(4, 10 * DebounceMs, "")
SpecKeypad == InitKeypadSpec /\ [][NextKeypad]_vars

\* One encoder: its ticks and the reports of its timer, each in its own thread.
InitEncoderSpec ==
    /\ InitPin /\ ParkedMotor /\ InitOled /\ InitKeypad(12)
    /\ InitSensor(Unthrottled, 0, 0)
    /\ InitEncoder
SpecEncoder == InitEncoderSpec /\ [][NextEncoder]_vars

(***************************************************************************)
(* Properties                                                              *)
(***************************************************************************)

\* C1: a handle_get_pin_value call whose pin never reports (it is absent from
\* pin_values when the call ends) ends with the response -1, after no more than the
\* 5 second timeout, and not in an exception.
C1_TimeoutReturnsSentinel ==
    (gpc = "idle" /\ gresp.kind # "none" /\ greq.pin \notin DOMAIN pin_values)
        => (gresp = [kind |-> "response", value |-> ErrorValue]
            /\ elapsed <= TimeoutSeconds)

OtherDirectionPin(pin) == IF pin = "d1" THEN "d2" ELSE "d1"
IsDirectionWrite(o, pin, v) == o.op = "digital_write" /\ o.pin = pin /\ o.val = v

\* C2: on a DDPMotor whose set_speed calls run one after another, d1 and d2 are
\* never both high after any pin write, and in every call a direction pin is written
\* high only after the other direction pin has been written low, with no write of
\* high to that other pin in between.
C2_DDPNeverBothHigh ==
    kind = "ddp" =>
        /\ ~(pinval["d1"] = 1 /\ pinval["d2"] = 1)
        /\ \A j \in 1..Len(oplog) :
             (oplog[j].op = "digital_write" /\ oplog[j].val = 1) =>
                 \E i \in 1..(j - 1) :
                     /\ IsDirectionWrite(oplog[i], OtherDirectionPin(oplog[j].pin), 0)
                     /\ \A m \in (i + 1)..(j - 1) :
                          ~IsDirectionWrite(oplog[m], OtherDirectionPin(oplog[j].pin), 1)

\* A DDPMotor reversing from forward, d1 just written high as the fourth write.
C2_Witness ==
    /\ kind = "ddp"
    /\ mpc = "run"
    /\ prev_motor_speed > 0
    /\ mspeed < 0
    /\ Len(oplog) = 4
    /\ pinval["d1"] = 1
    /\ pinval["d2"] = 0

\* C3: the failed flag of the Oled is never cleared, and a set_oled_image_service
\* call that begins with the flag set answers with a failure response, at once, and
\* issues no i2c_write.
C3_FailedLatchRefuses ==
    [][/\ failed => failed'
       /\ entered_failed' => (oresp' = "False" /\ ~wrote' /\ opc' = "idle")]_vars

\* A call refused after a write of an earlier call's flush had failed.
C3_Witness ==
    /\ failed
    /\ entered_failed
    /\ opc = "idle"
    /\ oresp = "False"
    /\ started > 0

\* C4: with a throttling max_freq the first reading given to publish is forwarded
\* exactly once in that call, and last_publish_time is the time of that call.
C4_FirstReadingForwarded ==
    (max_freq # Unthrottled /\ nreadings = 1) =>
        /\ fwd_in_call = 1
        /\ nforwarded = 1
        /\ fwd_times = <<first_reading>>
        /\ last_publish_time = first_reading
        /\ last_publish_value = 1

\* The first reading of a throttled sensor, some time after the clock started.
C4_Witness ==
    /\ max_freq = 250
    /\ nreadings = 1
    /\ first_reading = 3
    /\ nforwarded = 1

\* C5: with max_freq = -1 every reading given to publish is forwarded, once, at the
\* time it is given, whatever the time between the calls.
C5_UnthrottledForwardsAll ==
    max_freq = Unthrottled =>
        /\ nforwarded = nreadings
        /\ Len(fwd_times) = nreadings
        /\ (nreadings > 0 => (fwd_in_call = 1 /\ fwd_times[nreadings] = last_reading
                              /\ last_publish_value = nreadings))

\* Unthrottled readings one millisecond apart and then after a longer pause.
C5_Witness ==
    /\ max_freq = Unthrottled
    /\ nreadings = 4
    /\ nforwarded = 4
    /\ fwd_times[1] + 1 = fwd_times[2]
    /\ fwd_times[3] + 5 = fwd_times[4]

\* The forwarded readings with a time in the window [a, a + len).
ForwardedIn(a, len) ==
    Cardinality({i \in 1..Len(fwd_times) : a <= fwd_times[i] /\ fwd_times[i] < a + len})

\* floor(T * f) for a window of len milliseconds.
FloorTf(len, f) == (len * f) \div 1000

\* C6 as stated: for readings at any increasing times and a throttling max_freq f,
\* every window of length T between the first and the last reading holds between
\* floor(T*f) - 1 and floor(T*f) + 1 forwarded readings.
C6_AnyWindowWithinOne ==
    (max_freq # Unthrottled /\ nreadings > 0) =>
        \A a \in first_reading..last_reading :
            \A len \in 1..(last_reading + 1 - a) :
                /\ ForwardedIn(a, len) >= FloorTf(len, max_freq) - 1
                /\ ForwardedIn(a, len) <= FloorTf(len, max_freq) + 1

\* Every reading so far came within one period of the one before it, and the clock
\* is within one period of the last reading.
NoGapSoFar ==
    /\ maxgap <= Period(max_freq)
    /\ now - last_reading <= Period(max_freq)

\* C6 as amended: in the window that starts at the first reading and ends now, of
\* length T, at most floor(T*f) + 1 readings were forwarded, whatever the times of
\* the readings; and at least floor(T*f) - 1 when no reading came more than one
\* period after the one before it.
C6_WindowFromFirstReading ==
    (max_freq # Unthrottled /\ nreadings > 0) =>
        /\ nforwarded <= FloorTf(now - first_reading, max_freq) + 1
        /\ NoGapSoFar => nforwarded >= FloorTf(now - first_reading, max_freq) - 1

\* Readings with a pause of more than one period, and forwards after the pause.
C6_Witness ==
    /\ max_freq = 250
    /\ nreadings >= 4
    /\ maxgap > Period(max_freq)
    /\ nforwarded >= 3
    /\ now - first_reading >= 2 * Period(max_freq)

\* C7: a sensor with max_freq = 10 read every 10 ms from t = 0 on: the reading at
\* t = 0 is forwarded, and 9, 10 or 11 readings are forwarded in the first 1000 ms,
\* the reading at 1000 ms counted or not.
C7_TenPerSecond ==
    /\ nreadings > 0 => (first_reading = 0 /\ fwd_times[1] = 0)
    /\ last_reading + ScenarioStepMs >= ScenarioEndMs =>
           ForwardedIn(0, ScenarioEndMs) \in {9, 10, 11}
    /\ last_reading >= ScenarioEndMs =>
           ForwardedIn(0, ScenarioEndMs + 1) \in {9, 10, 11}

\* The reading at 1000 ms has been published.
C7_Witness ==
    /\ max_freq = 10
    /\ last_reading = ScenarioEndMs
    /\ nreadings = 101
    /\ ForwardedIn(0, ScenarioEndMs) = 10

\* C8: a set_speed call whose target equals prev_motor_speed issues no pin-mode call
\* and no pin write and leaves prev_motor_speed and initialized as they are: the call
\* is over as it starts, with nothing to issue.
C8_SameSpeedNoOp ==
    [][(ncalls' = ncalls + 1 /\ mspeed' = prev_motor_speed) =>
          /\ mpc' = "idle"
          /\ mprog' = << >>
          /\ oplog' = << >>
          /\ UNCHANGED <<pinval, pinmode, modecount, prev_motor_speed, initialized>>]_vars

\* set_speed(0) as the first call on a freshly constructed DDPMotor.
C8_Witness ==
    /\ kind = "ddp"
    /\ ncalls = 1
    /\ mspeed = 0
    /\ mpc = "idle"
    /\ oplog = << >>
    /\ ~initialized
    /\ \A p \in MotorPins : modecount[p] = 0

\* The call in flight is the first set_speed call with a non-zero target.
FirstNonZeroCallRunning == mpc = "run" /\ mspeed # 0 /\ nzcalls = 1

\* C9: initialized is set in the first set_speed call with a non-zero target and is
\* never reset; pin-mode calls are issued in that call only; no pin's mode is set
\* more than once, and once that call is over each pin of the variant has had its
\* mode set exactly once.
C9_ModeSetOnce ==
    [][/\ initialized => initialized'
       /\ initialized' # initialized => FirstNonZeroCallRunning
       /\ modecount' # modecount => FirstNonZeroCallRunning
       /\ \A p \in MotorPins : modecount'[p] <= 1
       /\ \A p \in MotorPins \ KindPins(kind) : modecount'[p] = 0
       /\ (mpc' = "idle" /\ nzcalls' >= 1) =>
              (initialized' /\ \A p \in KindPins(kind) : modecount'[p] = 1)
       /\ nzcalls' = 0 => ~initialized']_vars

\* A PPMotor after forward, stop and reverse: two direction changes behind it.
C9_Witness ==
    /\ kind = "pp"
    /\ mpc = "idle"
    /\ ncalls >= 3
    /\ nzcalls >= 2
    /\ prev_motor_speed < 0
    /\ initialized
    /\ modecount["p1"] = 1
    /\ modecount["p2"] = 1

\* The key the documented bands give a sample v at bit depth b, band by band.
InBand(v, b, lo, hi) == lo * 2^b <= v * 4096 /\ v * 4096 < hi * 2^b

\* C10: the raw key of a sample v at ADC depth b is left below t(70), up from t(70)
\* to below t(230), down to below t(410), right to below t(620), enter to below
\* t(880) and none from there on, with t(x) = x / 4096 * 2^b; at 12 bits 50 is left
\* and 150 is up.
C10_DecodeBands ==
    nreadings > 0 =>
        /\ last_key = "left" <=> (ksample * 4096 < 70 * 2^adc_bits)
        /\ last_key = "up" <=> InBand(ksample, adc_bits, 70, 230)
        /\ last_key = "down" <=> InBand(ksample, adc_bits, 230, 410)
        /\ last_key = "right" <=> InBand(ksample, adc_bits, 410, 620)
        /\ last_key = "enter" <=> InBand(ksample, adc_bits, 620, 880)
        /\ last_key = "" <=> (ksample * 4096 >= 880 * 2^adc_bits)
        /\ (adc_bits = 12 /\ ksample = 50) => last_key = "left"
        /\ (adc_bits = 12 /\ ksample = 150) => last_key = "up"

\* On a 10-bit board t(70) = 17.5: the sample 18 is decoded as up.
C10_Witness ==
    /\ adc_bits = 10
    /\ nreadings > 0
    /\ ksample = 18
    /\ last_key = "up"

\* The time from the first to the last sample of the current run of one raw key.
RunSpan == last_reading - run_start

\* C11 as stated: while one raw key k, not none, is held, from the sample on at
\* which the samples of k span at least 100 ms, 100 ms exactly included,
\* last_debounced_key is k and has changed exactly once over the samples of the
\* hold.
C11_HeldKeyPromotedAt100 ==
    (nreadings > 0 /\ last_key # "" /\ RunSpan >= DebounceMs) =>
        (last_debounced_key = last_key /\ run_changes = 1)

\* C11 as amended: while one raw key k, not none, is held, last_debounced_key is
\* none after every sample up to a span of 100 ms, 100 ms exactly included, and k
\* after every sample that is more than 100 ms after the first sample of k: over
\* the samples of the hold it changes exactly once, from none to k.
C11_HeldKeyPromotedAfter100 ==
    (nreadings > 0 /\ last_key # "") =>
        IF RunSpan > DebounceMs
        THEN last_debounced_key = last_key /\ run_changes = 1
        ELSE last_debounced_key = "" /\ run_changes = 0

\* The key left held over three samples, 200 ms from the first to the third, after
\* the key up had been the debounced key.
C11_Witness ==
    /\ last_key = "left"
    /\ prev_run_key = "up"
    /\ run_before = "up"
    /\ RunSpan = 2 * DebounceMs
    /\ last_debounced_key = "left"
    /\ run_changes = 1

\* The sample that ends an episode: the raw key goes back to the key of the run
\* before the current run, whose samples span less than the debounce time.
EpisodeEnds ==
    /\ nreadings > 0
    /\ nreadings' = nreadings + 1
    /\ last_key' # last_key
    /\ last_key' = prev_run_key
    /\ RunSpan < DebounceMs

\* C12 as stated: a raw key seen for less than 100 ms, after which the raw key is
\* again the one seen before it, leaves last_debounced_key after each of its samples
\* and after the sample that goes back as it was before the episode, whatever it was.
C12_ShortEpisodeNoTransition ==
    [][EpisodeEnds => (run_same /\ last_debounced_key' = run_before)]_vars

\* C12 as amended: the same, for an episode that begins while last_debounced_key is
\* none.
C12_ShortEpisodeFromNone ==
    [][(EpisodeEnds /\ run_before = "") =>
           (run_same /\ last_debounced_key' = "")]_vars

\* The key up for two samples 50 ms apart between samples of left, left not yet
\* debounced: the sample of left that ends the episode has come.
C12_Witness ==
    /\ last_key = "left"
    /\ prev_run_key = "up"
    /\ run_before = ""
    /\ nreadings = 4
    /\ RunSpan = 0
    /\ now - first_reading = 3 * (DebounceMs \div 2)
    /\ last_debounced_key = ""

\* C13: a sample at which last_debounced_key changes from a key p, not none, to
\* another value sends one press event, with the key p, to the pressed publisher,
\* whether or not the limiter forwards the keypad message of that sample; any other
\* sample sends no press event.
C13_PressOnChangeFromKey ==
    [][nreadings' = nreadings + 1 =>
          IF last_debounced_key # "" /\ last_debounced_key' # last_debounced_key
          THEN pressed' = [sent |-> TRUE, key |-> last_debounced_key]
          ELSE ~pressed'.sent]_vars

\* The debounced key left ends at a sample whose keypad message the limiter holds
\* back: the press event of left is sent all the same.
C13_Witness ==
    /\ pressed = [sent |-> TRUE, key |-> "left"]
    /\ last_debounced_key = ""
    /\ fwd_in_call = 0
    /\ nreadings = 3

\* C19 as stated: last_debounced_key changes only at a sample at which the raw key
\* has been the same for more than 100 ms; at a sample at which it has been the same
\* for 100 ms or less, last_debounced_key stays as it was.
C19_ChangeOnlyWhenStable ==
    [][(nreadings' = nreadings + 1 /\ last_debounced_key' # last_debounced_key) =>
           last_reading' - run_start' > DebounceMs]_vars

\* C19 as amended: last_debounced_key becomes a key, not none, only at a sample at
\* which the raw key has been the same for more than 100 ms; at a sample at which it
\* has been the same for 100 ms or less, last_debounced_key is none.
C19_KeyOnlyWhenStable ==
    [][nreadings' = nreadings + 1 =>
          /\ last_debounced_key' \notin {"", last_debounced_key} =>
                 last_reading' - run_start' > DebounceMs
          /\ last_reading' - run_start' <= DebounceMs => last_debounced_key' = ""]_vars

\* The raw key changes from the debounced key left to up: last_debounced_key is none
\* after that sample, the first of up.
C19_Witness ==
    /\ run_before = "left"
    /\ last_key = "up"
    /\ RunSpan = 0
    /\ last_debounced_key = ""
    /\ pressed.sent

\* The pin writes among the operations of a call, in order.
WritesOf(ops) == SelectSeq(ops, IsWriteOp)

\* C14: when a DPMotor set_speed(s) call that changes the speed is over, d1 is low
\* and the duty 0 for s = 0, d1 is low and the duty int(min(s,100)/100 * max_pwm)
\* for s > 0, d1 is high and the duty int(max_pwm - min(|s|,100)/100 * max_pwm) for
\* s < 0; pin-mode calls are issued only in the first call with a non-zero target,
\* so after forward, 0, reverse only the forward call has issued them, and the
\* reverse call writes d1 high and max_pwm less the scaled magnitude.
C14_DPDirectionAndDuty ==
    kind = "dp" =>
        /\ (mpc = "idle" /\ oplog # << >>) =>
              /\ mspeed = 0 => (pinval["d1"] = 0 /\ pinval["p1"] = 0)
              /\ mspeed > 0 =>
                    /\ pinval["d1"] = 0
                    /\ pinval["p1"] = (Min(mspeed, 100) * MaxPwmValue) \div 100
              /\ mspeed < 0 =>
                    /\ pinval["d1"] = 1
                    /\ pinval["p1"] =
                          (100 * MaxPwmValue - Min(-mspeed, 100) * MaxPwmValue) \div 100
              /\ (MaxPwmValue = 255 /\ mspeed = 40) => pinval["p1"] = 102
              /\ (MaxPwmValue = 255 /\ mspeed = -40) => pinval["p1"] = 153
        /\ (\E i \in 1..Len(oplog) : IsModeOp(oplog[i])) => (mspeed # 0 /\ nzcalls = 1)
        /\ (mpc = "idle" /\ Len(targets) >= 3 /\ targets[1] > 0 /\ targets[2] = 0
            /\ targets[3] < 0 /\ ncalls = 3) =>
               /\ WritesOf(oplog) =
                      <<DigitalWrite("d1", 1),
                        AnalogWrite("p1", (100 * MaxPwmValue
                                           - Min(-targets[3], 100) * MaxPwmValue) \div 100)>>
               /\ \A i \in 1..Len(oplog) : ~IsModeOp(oplog[i])
               /\ modecount["d1"] = 1 /\ modecount["p1"] = 1

\* A DPMotor after forward at 40, stop, reverse at 40.
C14_Witness ==
    /\ kind = "dp"
    /\ mpc = "idle"
    /\ targets = <<40, 0, -40>>
    /\ pinval["d1"] = 1
    /\ pinval["p1"] = 153
    /\ modecount["d1"] = 1
    /\ modecount["p1"] = 1

\* The target a target beyond +/-100 is clamped to.
ClampedTarget(s) == IF s > 100 THEN 100 ELSE IF s < -100 THEN -100 ELSE s

\* C16: a set_speed call with a target beyond +/-100 that differs from
\* prev_motor_speed runs like any other call, and the pin writes it has issued when
\* it is over are those of a call with the target +100 or -100 of the same sign;
\* every duty written, for any target, is between 0 and max_pwm.
C16_TargetsClamped ==
    [][/\ \A i \in 1..Len(oplog') :
            oplog'[i].op = "analog_write" =>
                (0 <= oplog'[i].val /\ oplog'[i].val <= MaxPwmValue)
       /\ (ncalls' = ncalls + 1 /\ Abs(mspeed') > 100 /\ mspeed' # prev_motor_speed) =>
              mpc' = "run"
       /\ (mpc' = "idle" /\ oplog' # << >> /\ Abs(mspeed') > 100) =>
              /\ WritesOf(oplog') =
                     WritesOf(SetSpeedProgram(kind, ClampedTarget(mspeed'), 0, TRUE))
              /\ prev_motor_speed' = mspeed']_vars

\* A PPMotor after the targets 150 and -150: full duty on p1, then on p2.
C16_Witness ==
    /\ kind = "pp"
    /\ mpc = "idle"
    /\ targets = <<150, -150>>
    /\ pinval["p1"] = 0
    /\ pinval["p2"] = MaxPwmValue

\* The command writes and the chunk writes a flush has issued.
IsCmdWrite(w) == w.marker = 128
IsChunkWrite(w) == w.marker = 64
CmdWrites == SelectSeq(buslog, IsCmdWrite)
ChunkWrites == SelectSeq(buslog, IsChunkWrite)

\* A flush is over: every task of the gather has started and show_async has gone on.
FlushOver == opc \in {"show", "idle"} /\ started = NumTasks

\* The bytes of the framebuffer, (height / 8) * width, and ceil(a / b).
FrameBytes == (oheight \div 8) * owidth
CeilDiv(a, b) == (a + b - 1) \div b

C17_FailedFlushReported ==
    (opc = "idle" /\ oresp # "none" /\ ~entered_failed /\ wrote /\ failed) =>
        oresp = "False"

\* C20: the chunk writes of a flush are those of the tasks 0 to 63 in order, each of
\* 17 bytes, the marker 0x40 and the framebuffer bytes 16*i to 16*i + 15 for chunk
\* i; when the flush is over every framebuffer byte has been sent in exactly one
\* chunk.
C20_ChunksCoverFramebuffer ==
    /\ \A k \in 1..Len(ChunkWrites) :
          /\ ChunkWrites[k].task = 6 + (k - 1)
          /\ ChunkWrites[k].marker = 64
          /\ ChunkWrites[k].bytes = 17
          /\ ChunkWrites[k].lo = 16 * (k - 1)
          /\ ChunkWrites[k].hi = 16 * (k - 1) + 15
    /\ FlushOver =>
          \A b \in 0..(FrameBytes - 1) :
              Cardinality({k \in 1..Len(ChunkWrites) :
                              ChunkWrites[k].lo <= b /\ b <= ChunkWrites[k].hi}) = 1

\* A flush is over whose last chunk write carried the framebuffer bytes 1008 to 1023.
C20_Witness ==
    /\ FlushOver
    /\ Len(ChunkWrites) = 64
    /\ ChunkWrites[64].lo = 1008
    /\ ChunkWrites[64].hi = FrameBytes - 1
    /\ FrameBytes = 1024

\* C18: a publish call that forwards its reading leaves that reading in
\* last_publish_value; a publish call that forwards nothing leaves
\* last_publish_value and last_publish_time as they were. So last_publish_value, which
\* get_data returns, is always the most recently forwarded reading.
C18_LastValueIsLastForwarded ==
    [][nreadings' = nreadings + 1 =>
          IF nforwarded' > nforwarded
          THEN last_publish_value' = nreadings'
          ELSE /\ last_publish_value' = last_publish_value
               /\ last_publish_time' = last_publish_time]_vars

\* The third reading of a sensor capped at 250 Hz is held back: last_publish_value is
\* still the second reading, forwarded 2 ms earlier.
C18_Witness ==
    /\ max_freq = 250
    /\ nreadings = 3
    /\ fwd_in_call = 0
    /\ nforwarded = 2
    /\ last_publish_value = 2
    /\ last_reading = fwd_times[2] + 2

\* C21: whatever the targets of the set_speed calls made so far, prev_motor_speed is
\* an integer from -100 to 100.
C21_PrevSpeedInRange == prev_motor_speed \in -100..100

\* C22: a PPMotor set_speed call that changes the speed writes 0 to p2 and then 0 to
\* p1 for the target 0, 0 to p2 and then the duty int(min(target,100)/100 * max_pwm)
\* to p1 for a target above 0, 0 to p1 and then the duty of -target to p2 for a
\* target below 0; p1 and p2 are never both non-zero after a write.
C22_PPWriteOrder ==
    kind = "pp" =>
        /\ ~(pinval["p1"] # 0 /\ pinval["p2"] # 0)
        /\ (mpc = "idle" /\ oplog # << >>) =>
              WritesOf(oplog) =
                  IF mspeed = 0
                  THEN <<AnalogWrite("p2", 0), AnalogWrite("p1", 0)>>
                  ELSE IF mspeed > 0
                  THEN <<AnalogWrite("p2", 0),
                         AnalogWrite("p1", (Min(mspeed, 100) * MaxPwmValue) \div 100)>>
                  ELSE <<AnalogWrite("p1", 0),
                         AnalogWrite("p2", (Min(-mspeed, 100) * MaxPwmValue) \div 100)>>

\* A PPMotor reversing from forward: p1 has just been written 0, p2 is still 0.
C22_Witness ==
    /\ kind = "pp"
    /\ targets = <<40, -40>>
    /\ mpc = "run"
    /\ oplog = <<AnalogWrite("p1", 0)>>
    /\ pinval["p1"] = 0
    /\ pinval["p2"] = 0

\* The pin-mode calls among the operations of a call, in order.
ModesOf(ops) == SelectSeq(ops, IsModeOp)

\* C23: the first set_speed call with a non-zero target configures, on a PPMotor, p2
\* then p1 for a forward target and p1 then p2 for a reverse target, and on a
\* DPMotor d1 (digital) then p1 (analog) for a forward target and p1 then d1 for a
\* reverse target; in no call of these variants does a pin-mode call follow a pin
\* write.
C23_LazyInitOrder ==
    kind \in {"pp", "dp"} =>
        /\ \A i \in 1..Len(oplog) : \A j \in (i + 1)..Len(oplog) :
              ~(IsWriteOp(oplog[i]) /\ IsModeOp(oplog[j]))
        /\ (mpc = "idle" /\ nzcalls = 1 /\ mspeed # 0) =>
              ModesOf(oplog) =
                  IF kind = "pp"
                  THEN (IF mspeed > 0
                        THEN <<AnalogMode("p2"), AnalogMode("p1")>>
                        ELSE <<AnalogMode("p1"), AnalogMode("p2")>>)
                  ELSE (IF mspeed > 0
                        THEN <<DigitalMode("d1"), AnalogMode("p1")>>
                        ELSE <<AnalogMode("p1"), DigitalMode("d1")>>)

\* A DPMotor whose first call with a non-zero target was a reverse one, after a call
\* with the target 0: p1 was configured first, then d1, then the two writes.
C23_Witness ==
    /\ kind = "dp"
    /\ targets = <<0, -40>>
    /\ mpc = "idle"
    /\ Len(oplog) = 6
    /\ oplog[1] = AnalogMode("p1")
    /\ oplog[2] = DigitalMode("d1")
    /\ IsWriteOp(oplog[4])

\* C24: a publish call after the first one, with a throttling max_freq, forwards its
\* reading exactly when the time of the call is at least 1000 / max_freq milliseconds
\* after last_publish_time, and then adds exactly 1000 / max_freq to
\* last_publish_time, whatever the time of the call; a call that does not forward
\* leaves last_publish_time as it is.
C24_AdvanceByPeriod ==
    [][(nreadings' = nreadings + 1 /\ nreadings > 0 /\ max_freq # Unthrottled) =>
          IF last_reading' - last_publish_time >= 1000 \div max_freq
          THEN /\ nforwarded' = nforwarded + 1
               /\ last_publish_time' = last_publish_time + 1000 \div max_freq
          ELSE /\ nforwarded' = nforwarded
               /\ last_publish_time' = last_publish_time]_vars

\* A reading forwarded 7 ms after the first one by a sensor capped at 250 Hz:
\* last_publish_time is 4 ms after the first reading, not the time of the call.
C24_Witness ==
    /\ max_freq = 250
    /\ nreadings = 2
    /\ nforwarded = 2
    /\ fwd_in_call = 1
    /\ last_reading = first_reading + 7
    /\ last_publish_time = first_reading + 4

\* C30: with a throttling max_freq, last_publish_time is never later than the last
\* publish call, nor than the clock; and the time from last_publish_time to the call
\* grows with the pause between the readings: after a second reading that comes a
\* pause of at least one period after the first, it is that pause less one period.
C30_DeadlineNotAhead ==
    (max_freq # Unthrottled /\ nreadings > 0) =>
        /\ last_publish_time <= last_reading
        /\ last_publish_time <= now
        /\ (nreadings = 2 /\ maxgap >= Period(max_freq)) =>
               last_reading - last_publish_time = maxgap - Period(max_freq)

\* A sensor capped at 500 Hz whose second reading comes 12 ms after the first:
\* last_publish_time is five periods behind the call.
C30_Witness ==
    /\ max_freq = 500
    /\ nreadings = 2
    /\ maxgap = 12
    /\ last_reading - last_publish_time = 5 * Period(max_freq)

\* C29: last_debounced_key never changes from one key to a different key at a
\* sample, it changes from or to none only; and a press event never carries the key
\* none.
C29_KeyChangesThroughNone ==
    [][nreadings' = nreadings + 1 =>
          /\ last_debounced_key' # last_debounced_key =>
                 (last_debounced_key = "" \/ last_debounced_key' = "")
          /\ pressed'.sent => pressed'.key # ""]_vars

\* The raw key goes from left, debounced, straight to up, which is held until it is
\* debounced: last_debounced_key was none in between, and left was sent as pressed.
C29_Witness ==
    /\ prev_run_key = "left"
    /\ run_before = "left"
    /\ last_key = "up"
    /\ last_debounced_key = "up"
    /\ run_changes = 1
    /\ ~pressed.sent

\* The drive the pins of a DPMotor stand for: forward (positive) at the duty of p1
\* while d1 is low, reverse (negative) at the duty max_pwm less p1 while d1 is high.
DPDrive == IF pinval["d1"] = 0 THEN pinval["p1"] ELSE -(MaxPwmValue - pinval["p1"])
Sign(x) == IF x > 0 THEN 1 ELSE IF x < 0 THEN -1 ELSE 0

\* C27: while a DPMotor set_speed call is in flight, the drive its pins stand for is
\* zero, or has the direction of the previous target, or has the direction of the
\* new target, after every write; so a call with the target 0 after a reverse target
\* never drives forward at a duty above 0.
C27_DPTransientDrive ==
    (kind = "dp" /\ mpc = "run") =>
        \/ DPDrive = 0
        \/ Sign(DPDrive) = Sign(prev_motor_speed)
        \/ Sign(DPDrive) = Sign(mspeed)

\* The pin-mode call or pin write a step has issued, when it has issued one.
IssuesWrite == Len(oplog') = Len(oplog) + 1 /\ IsWriteOp(oplog'[Len(oplog')])

\* C28: whatever the variant and the calls so far, one after another from the
\* construction on, a pin write goes to a pin whose output mode has been configured
\* before, the writes of a call with the target 0 included.
C28_ModeBeforeWrite ==
    [][IssuesWrite => pinmode[oplog'[Len(oplog')].pin] # "unset"]_vars

\* A PPMotor after forward and stop: the call with the target 0 has written both
\* pins, which the forward call had configured.
C28_Witness ==
    /\ kind = "pp"
    /\ targets = <<40, 0>>
    /\ mpc = "idle"
    /\ WritesOf(oplog) = <<AnalogWrite("p2", 0), AnalogWrite("p1", 0)>>
    /\ pinmode["p1"] # "unset"
    /\ pinmode["p2"] # "unset"

\* The six commands of a flush of the 128x64 display: 0x21, the columns 0 and 127,
\* 0x22, the pages 0 and 7.
Preamble128x64 == <<33, 0, 127, 34, 0, 7>>

C26_OverlapKeepsInterlock ==
    kind = "ddp" =>
        /\ ~(pinval["d1"] = 1 /\ pinval["d2"] = 1)
        /\ \A p \in MotorPins : modecount[p] <= 1

\* C31: whenever neither callback of the encoder is under way, the values
\* publish_speed_data has published add up to the ticks received less speed_count:
\* every tick is in exactly one report or still in speed_count.
C31_TicksCountedOnce ==
    (tick_pc = "idle" /\ timer_pc = "idle") => speed_sum = nticks - speed_count

====
